---- MODULE Spec2Model ----
(***************************************************************************)
(* Model of botp (src/src/lib.rs): a BLAKE3-keyed one-time-password.       *)
(*                                                                         *)
(*   botp(counter, secret)  = truncate(keyed_hash(secret, counter_be))     *)
(*   get_counter(interval, epoch)                                          *)
(*   generate_secret_key()                                                 *)
(*                                                                         *)
(* Representations.  TLC integers are 32 bits wide, so every quantity that *)
(* may exceed 2^31 is kept in limbs:                                       *)
(*   - a byte array [u8; n] is a function 0..n-1 -> 0..255 (0-indexed, as  *)
(*     in the source);                                                     *)
(*   - a 32-bit BLAKE3 word is a pair <<hi, lo>> of 16-bit halves;         *)
(*   - a u64 produced by u64::from_be_bytes is the sequence of its 20      *)
(*     decimal digits, most significant first (zero padded).               *)
(***************************************************************************)
EXTENDS Integers, Sequences, FiniteSets, TLC

(***************************************************************************)
(* Byte arrays                                                             *)
(***************************************************************************)
Byte == 0..255

\* [u8; 32] and [u8; 8] index ranges
HashIdx == 0..31
U64Idx == 0..7

\* slice.len()
ArrLen(arr) == Cardinality(DOMAIN arr)

(***************************************************************************)
(* The environment the functions read                                      *)
(***************************************************************************)
VARIABLES
    now,          \* the system clock (SystemTime::now()), in ticks
    stdout_room,  \* how many more writes the stdout device accepts
    stdout_stale  \* the line a failed println! left in std's stdout buffer

\* stdout_room counts writes up to MaxRoom; Unlimited is a device that
\* accepts every write (a terminal, a file on a disk with space)
MaxRoom == 4
Unlimited == MaxRoom + 1

Accepts(room) == room > 0
AfterWrite(room) == IF room > MaxRoom THEN room ELSE room - 1

\* stdout_stale: NoLine, or the source line of the println! whose text is held
NoLine == 0

\* println!(..) at source line `line`.  std's stdout is line buffered: the
\* text is put in the buffer and the buffer written at the newline; when
\* that write fails the text stays in the buffer and println! panics
\* ("failed printing to stdout").  A later println! first writes the text
\* left there, and panics without buffering its own when that fails.
\*   written - the lines that reached the device, by source line
println(line, room, stale) ==
    LET held == stale # NoLine
        flushed == held /\ Accepts(room)
        room1 == IF flushed THEN AfterWrite(room) ELSE room
        ok == (held => flushed) /\ Accepts(room1)
    IN [ok |-> ok,
        room |-> IF ok THEN AfterWrite(room1) ELSE room1,
        stale |-> IF ok THEN NoLine
                  ELSE IF held /\ ~flushed THEN stale
                  ELSE line,
        written |-> (IF flushed THEN <<stale>> ELSE <<>>)
                    \o (IF ok THEN <<line>> ELSE <<>>)]

(***************************************************************************)
(* 16/32-bit word arithmetic used by the BLAKE3 compression function       *)
(***************************************************************************)
Half == 65536

\* 2^n, 0 <= n <= 16
Pow2(n) ==
    <<1, 2, 4, 8, 16, 32, 64, 128, 256, 512, 1024, 2048, 4096, 8192, 16384, 32768, 65536>>[n + 1]

\* bitwise xor of two naturals
RECURSIVE XorNat(_, _)
XorNat(a, b) ==
    IF a = 0 THEN b
    ELSE IF b = 0 THEN a
    ELSE 2 * XorNat(a \div 2, b \div 2) + ((a + b) % 2)

\* bitwise and of two naturals
RECURSIVE AndNat(_, _)
AndNat(a, b) ==
    IF a = 0 \/ b = 0 THEN 0
    ELSE 2 * AndNat(a \div 2, b \div 2) + ((a % 2) * (b % 2))

\* u8 ^ u8, tabulated
XorByte == [a \in Byte |-> [b \in Byte |-> XorNat(a, b)]]

\* u16 ^ u16
Xor16(a, b) == XorByte[a \div 256][b \div 256] * 256 + XorByte[a % 256][b % 256]

\* u32 ^ u32
Xor32(x, y) == <<Xor16(x[1], y[1]), Xor16(x[2], y[2])>>

\* u32.wrapping_add(u32)
Add32(x, y) ==
    LET lo == x[2] + y[2]
        hi == x[1] + y[1] + (lo \div Half)
    IN <<hi % Half, lo % Half>>

\* u32.rotate_right(n), 0 <= n < 32
Rotr32(x, n) ==
    LET hi == IF n >= 16 THEN x[2] ELSE x[1]
        lo == IF n >= 16 THEN x[1] ELSE x[2]
        p == Pow2(n % 16)
        q == Pow2(16 - (n % 16))
    IN <<(hi \div p) + (lo % p) * q, (lo \div p) + (hi % p) * q>>

\* u32::from_le_bytes
WordFromLeBytes(b0, b1, b2, b3) == <<b3 * 256 + b2, b1 * 256 + b0>>

\* u32::to_le_bytes, byte k of the word
WordLeByte(w, k) ==
    CASE k = 0 -> w[2] % 256
      [] k = 1 -> w[2] \div 256
      [] k = 2 -> w[1] % 256
      [] k = 3 -> w[1] \div 256

(***************************************************************************)
(* blake3::keyed_hash for a message of at most one block (the 8-byte       *)
(* counter): one chunk, one block, compressed as the root node.            *)
(***************************************************************************)
\* BLAKE3 IV (the SHA-256 initial values), as <<hi, lo>> halves
B3_IV ==
    [i \in 0..7 |->
        CASE i = 0 -> <<27145, 58983>>   \* 0x6A09E667
          [] i = 1 -> <<47975, 44677>>   \* 0xBB67AE85
          [] i = 2 -> <<15470, 62322>>   \* 0x3C6EF372
          [] i = 3 -> <<42319, 62778>>   \* 0xA54FF53A
          [] i = 4 -> <<20750, 21119>>   \* 0x510E527F
          [] i = 5 -> <<39685, 26764>>   \* 0x9B05688C
          [] i = 6 -> <<8067, 55723>>    \* 0x1F83D9AB
          [] i = 7 -> <<23520, 52505>>]  \* 0x5BE0CD19

\* BLAKE3 MSG_PERMUTATION (0-based word numbers)
B3_MsgPermutation == <<2, 6, 3, 10, 7, 0, 4, 13, 1, 11, 12, 5, 9, 14, 15, 8>>

\* domain flags: CHUNK_START | CHUNK_END | ROOT | KEYED_HASH
B3_Flags == 1 + 2 + 8 + 16

\* The 16-word state and the 16 message words are tuples; word number i
\* (0-based, as in the reference implementation) is element i + 1.

\* Half of the quarter-round G on the words v = <<a, b, c, d>> with message
\* word m:  a = a + b + m;  d = (d ^ a) >>> r1;  c = c + d;  b = (b ^ c) >>> r2
\* (The tests on Len, always true, have each word computed before the next
\* step uses it; they bound the depth of evaluation and change no value.)
B3_MixB(a, b, c, d, r2) ==
    IF Len(c) = 2 THEN <<a, Rotr32(Xor32(b, c), r2), c, d>> ELSE <<>>
B3_MixC(a, b, c, d, r2) ==
    IF Len(d) = 2 THEN B3_MixB(a, b, Add32(c, d), d, r2) ELSE <<>>
B3_MixD(a, b, c, d, r1, r2) ==
    IF Len(a) = 2 THEN B3_MixC(a, b, c, Rotr32(Xor32(d, a), r1), r2) ELSE <<>>
B3_Mix(v, m, r1, r2) ==
    IF Len(v) = 4
    THEN B3_MixD(Add32(Add32(v[1], v[2]), m), v[2], v[3], v[4], r1, r2)
    ELSE <<>>

\* state s with words a, b, c, d replaced by v
B3_Put(s, a, b, c, d, v) ==
    IF Len(v) = 4
    THEN [s EXCEPT ![a + 1] = v[1], ![b + 1] = v[2], ![c + 1] = v[3], ![d + 1] = v[4]]
    ELSE s

\* the quarter-round G on state words a, b, c, d with message words mx, my
B3_G(s, a, b, c, d, mx, my) ==
    B3_Put(s, a, b, c, d,
           B3_Mix(B3_Mix(<<s[a + 1], s[b + 1], s[c + 1], s[d + 1]>>, mx, 16, 12),
                  my, 8, 7))

\* the eight G applications of one round: four columns, then four diagonals
B3_Schedule ==
    << <<0, 4, 8, 12>>, <<1, 5, 9, 13>>, <<2, 6, 10, 14>>, <<3, 7, 11, 15>>,
       <<0, 5, 10, 15>>, <<1, 6, 11, 12>>, <<2, 7, 8, 13>>, <<3, 4, 9, 14>> >>

\* G number j..8 of a round applied to s (the test on Len(s), always true,
\* has s computed before it is used, which bounds the depth of evaluation)
RECURSIVE B3_RoundFrom(_, _, _)
B3_RoundFrom(s, m, j) ==
    IF Len(s) = 16 /\ j > 8 THEN s
    ELSE B3_RoundFrom(B3_G(s, B3_Schedule[j][1], B3_Schedule[j][2],
                           B3_Schedule[j][3], B3_Schedule[j][4],
                           m[2 * j - 1], m[2 * j]),
                      m, j + 1)

B3_Round(s, m) == B3_RoundFrom(s, m, 1)

B3_Permute(m) ==
    <<m[B3_MsgPermutation[1] + 1], m[B3_MsgPermutation[2] + 1],
      m[B3_MsgPermutation[3] + 1], m[B3_MsgPermutation[4] + 1],
      m[B3_MsgPermutation[5] + 1], m[B3_MsgPermutation[6] + 1],
      m[B3_MsgPermutation[7] + 1], m[B3_MsgPermutation[8] + 1],
      m[B3_MsgPermutation[9] + 1], m[B3_MsgPermutation[10] + 1],
      m[B3_MsgPermutation[11] + 1], m[B3_MsgPermutation[12] + 1],
      m[B3_MsgPermutation[13] + 1], m[B3_MsgPermutation[14] + 1],
      m[B3_MsgPermutation[15] + 1], m[B3_MsgPermutation[16] + 1]>>

\* r rounds, the message words permuted between rounds
RECURSIVE B3_Rounds(_, _, _)
B3_Rounds(s, m, r) ==
    IF Len(s) = 16 /\ Len(m) = 16 /\ r = 0 THEN s
    ELSE B3_Rounds(B3_Round(s, m), B3_Permute(m), r - 1)

\* compress(cv, block, counter = 0, block_len, flags): the first 8 output words
B3_Compress(cv, block, block_len, flags) ==
    LET init == <<cv[1], cv[2], cv[3], cv[4], cv[5], cv[6], cv[7], cv[8],
                  B3_IV[0], B3_IV[1], B3_IV[2], B3_IV[3],
                  <<0, 0>>, <<0, 0>>, <<0, block_len>>, <<0, flags>> >>
        fin == B3_Rounds(init, block, 7)
    IN IF Len(fin) = 16
       THEN <<Xor32(fin[1], fin[9]), Xor32(fin[2], fin[10]),
              Xor32(fin[3], fin[11]), Xor32(fin[4], fin[12]),
              Xor32(fin[5], fin[13]), Xor32(fin[6], fin[14]),
              Xor32(fin[7], fin[15]), Xor32(fin[8], fin[16])>>
       ELSE <<>>

\* the little-endian word at byte offset k of arr, zero padded past its end
WordAt(arr, k) ==
    LET byteAt(j) == IF j \in DOMAIN arr THEN arr[j] ELSE 0
    IN WordFromLeBytes(byteAt(k), byteAt(k + 1), byteAt(k + 2), byteAt(k + 3))

\* blake3::keyed_hash(key, input).as_bytes(), for an input of at most 64 bytes
keyed_hash(key, input) ==
    LET cv == <<WordAt(key, 0), WordAt(key, 4), WordAt(key, 8), WordAt(key, 12),
                WordAt(key, 16), WordAt(key, 20), WordAt(key, 24), WordAt(key, 28)>>
        block == <<WordAt(input, 0), WordAt(input, 4), WordAt(input, 8), WordAt(input, 12),
                   WordAt(input, 16), WordAt(input, 20), WordAt(input, 24), WordAt(input, 28),
                   WordAt(input, 32), WordAt(input, 36), WordAt(input, 40), WordAt(input, 44),
                   WordAt(input, 48), WordAt(input, 52), WordAt(input, 56), WordAt(input, 60)>>
        out == B3_Compress(cv, block, ArrLen(input), B3_Flags)
    IN IF Len(out) = 8
       THEN [k \in HashIdx |-> WordLeByte(out[(k \div 4) + 1], k % 4)]
       ELSE [k \in HashIdx |-> 0]

(***************************************************************************)
(* u64 values as 20-digit decimal numerals (2^64 < 10^20)                  *)
(***************************************************************************)
\* number of decimal digits that hold any u64
U64Digits == Len(<<1, 8, 4, 4, 6, 7, 4, 4, 0, 7, 3, 7, 0, 9, 5, 5, 1, 6, 1, 5>>)

U64Zero == [i \in 1..U64Digits |-> 0]

\* x >= y on numerals of equal length
GeqNum(x, y) ==
    LET diff == {i \in 1..Len(x) : x[i] # y[i]}
    IN \/ diff = {}
       \/ LET first == CHOOSE i \in diff : \A j \in diff : i <= j
          IN x[first] > y[first]

LessNum(x, y) == ~GeqNum(x, y)

\* The conversion from bytes accumulates in four limbs of six decimal
\* digits, most significant first.
LimbBase == 1000000

\* x * m + a on limbs, m and a at most 256
LimbMulAdd(x, m, a) ==
    LET t0 == x[4] * m + a
        t1 == x[3] * m + (t0 \div LimbBase)
        t2 == x[2] * m + (t1 \div LimbBase)
        t3 == x[1] * m + (t2 \div LimbBase)
    IN <<t3 % LimbBase, t2 % LimbBase, t1 % LimbBase, t0 % LimbBase>>

RECURSIVE Pow10(_)
Pow10(n) == IF n = 0 THEN 1 ELSE 10 * Pow10(n - 1)

\* the 20-digit numeral of a limb value
NumeralOfLimbs(x) ==
    [i \in 1..U64Digits |->
        LET p == U64Digits - i       \* the digit's power of ten
            limb == IF p \div 6 > 3 THEN 0 ELSE x[4 - (p \div 6)]
        IN (limb \div Pow10(p % 6)) % 10]

\* u64::from_be_bytes(bytes), bytes : 0..7 -> Byte
from_be_bytes(bytes) ==
    LET v0 == LimbMulAdd(<<0, 0, 0, 0>>, 256, bytes[0])
        v1 == LimbMulAdd(v0, 256, bytes[1])
        v2 == LimbMulAdd(v1, 256, bytes[2])
        v3 == LimbMulAdd(v2, 256, bytes[3])
        v4 == LimbMulAdd(v3, 256, bytes[4])
        v5 == LimbMulAdd(v4, 256, bytes[5])
        v6 == LimbMulAdd(v5, 256, bytes[6])
        v7 == LimbMulAdd(v6, 256, bytes[7])
    IN NumeralOfLimbs(v7)

\* x % 10^k on numerals: the last k digits
RemPowTen(x, k) == [i \in 1..U64Digits |-> IF i > U64Digits - k THEN x[i] ELSE 0]

\* u64::to_be_bytes(n) for a counter n held as a TLA+ natural
RECURSIVE ShiftRightBytes(_, _)
ShiftRightBytes(n, k) == IF k = 0 THEN n ELSE ShiftRightBytes(n \div 256, k - 1)

to_be_bytes(n) == [k \in U64Idx |-> ShiftRightBytes(n, 7 - k) % 256]

(***************************************************************************)
(* WrapIndex::wrapped_index, truncate, botp                                *)
(***************************************************************************)
\* `index % self.len()`
WrapPos(arr, index) == index % ArrLen(arr)

\* `&self[i]`: the slice access, bounds-checked by Rust (a panic out of range)
SliceGet(arr, i) ==
    IF i \in DOMAIN arr
    THEN [panic |-> FALSE, at |-> i, value |-> arr[i]]
    ELSE [panic |-> TRUE, at |-> i, value |-> 0]

\* slice.wrapped_index(index)
wrapped_index(arr, index) == SliceGet(arr, WrapPos(arr, index))

\* `hash_bytes[31] % 28`
OffsetOf(hash_bytes) == hash_bytes[31] % 28

\* Faulty variant: the sign-bit mask forgotten
MaskOf_all_ff(k) == 255

\* the mask applied to the k-th selected byte: 0x7f, then 0xff
MaskOf(k) == IF k = 0 THEN 127 ELSE 255

\* Faulty variant: one digit too many
CodeDigits_twelve == 11 + 1

\* `100_000_000_000` = 10^11: the number of decimal digits of a code
CodeDigits == 11

\* truncate runs in three steps, each ending in a println!; other users of
\* stdout may act between them.  A run of truncate:
\*   at        - the source line of the next println!, or Done
\*   panic     - the call panicked and returned nothing
\*   returned  - the call returned `code`
\*   printed   - the lines this call got written to stdout, by source line
\*   reads     - the indices handed to the slice access, in order
\*   masked    - the eight bytes handed to u64::from_be_bytes
\*   assembled - binned_code was computed
Done == 0

\* line 56: the offset
truncate_begin(hash_bytes) ==
    [at |-> 57, panic |-> FALSE, returned |-> FALSE,
     offset |-> OffsetOf(hash_bytes), printed |-> <<>>, reads |-> <<>>,
     assembled |-> FALSE, masked |-> <<>>, binned_code |-> U64Zero,
     code |-> U64Zero]

\* the run after a println! at `line` with result p, `next` the line of the
\* println! that follows (Done after the last)
AfterPrint(run, p, next) ==
    [run EXCEPT !.printed = @ \o p.written,
                !.at = IF p.ok THEN next ELSE Done,
                !.panic = ~p.ok,
                !.returned = p.ok /\ next = Done]

\* One step of truncate from st = [run, room, stale]: lines 57; 59 to 70;
\* 72 to 74.  The slice access panics on an index out of range.
truncate_step(st, hash_bytes) ==
    LET run == st.run
        got == [k \in U64Idx |-> wrapped_index(hash_bytes, run.offset + k)]
        badIdx == {k \in U64Idx : got[k].panic}
        lastRead == IF badIdx = {} THEN 7
                    ELSE CHOOSE k \in badIdx : \A j \in badIdx : k <= j
        reads == [k \in 0..lastRead |-> got[k].at]
        masked == [k \in U64Idx |-> AndNat(got[k].value, MaskOf(k))]
        p == println(run.at, st.room, st.stale)
    IN IF run.at = 70 /\ badIdx # {}
       THEN [st EXCEPT !.run = [run EXCEPT !.reads = reads, !.at = Done,
                                           !.panic = TRUE]]
       ELSE [run |-> CASE run.at = 57 -> AfterPrint(run, p, 70)
                       [] run.at = 70 ->
                            AfterPrint([run EXCEPT !.reads = reads,
                                                   !.assembled = TRUE,
                                                   !.masked = masked,
                                                   !.binned_code = from_be_bytes(masked)],
                                       p, 73)
                       [] run.at = 73 ->
                            AfterPrint([run EXCEPT
                                           !.code = RemPowTen(run.binned_code, CodeDigits)],
                                       p, Done),
             room |-> p.room,
             stale |-> p.stale]

\* the steps of truncate to its end, nothing else using stdout meanwhile
RECURSIVE RunFrom(_, _)
RunFrom(st, hash_bytes) ==
    IF st.run.at = Done THEN st ELSE RunFrom(truncate_step(st, hash_bytes), hash_bytes)

\* truncate(hash_bytes) called in the present state of stdout
truncate_run(hash_bytes) ==
    RunFrom([run |-> truncate_begin(hash_bytes), room |-> stdout_room,
             stale |-> stdout_stale], hash_bytes).run

\* what a call hands back to its caller: the code, or nothing (a panic)
Returned(run) == IF run.returned THEN run.code ELSE "panic"

truncate(hash_bytes) == Returned(truncate_run(hash_bytes))

\* botp(counter, secret): the hash is computed, then truncated
botp_run(counter, secret) ==
    LET counter_ne == to_be_bytes(counter)
        hash == keyed_hash(secret, counter_ne)
    IN IF hash[31] \in Byte THEN truncate_run(hash) ELSE truncate_run(hash)

botp(counter, secret) == Returned(botp_run(counter, secret))

(***************************************************************************)
(* State                                                                   *)
(***************************************************************************)
VARIABLES
    phase,        \* "idle", or the code-generation call in progress
    hash_bytes,   \* the hash handed to truncate by that call
    tr,           \* the run of truncate in that call
    counter,      \* botp's counter argument
    secret,       \* botp's secret argument
    cfg_epoch,    \* the caller's epoch, in ticks
    cfg_interval, \* the caller's interval, in seconds
    calls,        \* get_counter calls made: [t, outcome, value]
    key,          \* the last generate_secret_key call
    botp_log      \* per botp input: the codes it has returned

vars == <<phase, hash_bytes, tr, counter, secret, now, stdout_room, stdout_stale,
          cfg_epoch, cfg_interval, calls, key, botp_log>>

callVars == <<phase, hash_bytes, tr, counter, secret>>
stdoutVars == <<stdout_room, stdout_stale>>
codeVars == <<callVars, stdoutVars>>
clockVars == <<now, cfg_epoch, cfg_interval, calls>>

(***************************************************************************)
(* get_counter                                                             *)
(***************************************************************************)
\* clock resolution: ticks per second (SystemTime is finer than a second)
TicksPerSec == 2

\* Faulty variant: the absolute difference, never an error
duration_since_abs(self, earlier) ==
    [ok |-> TRUE, dur |-> IF self >= earlier THEN self - earlier ELSE earlier - self]

\* SystemTime::duration_since(earlier): Ok(self - earlier), or Err when
\* `earlier` is later than self
duration_since(self, earlier) ==
    IF self >= earlier
    THEN [ok |-> TRUE, dur |-> self - earlier]
    ELSE [ok |-> FALSE, dur |-> earlier - self]

\* Faulty variant: seconds rounded up
as_secs_ceil(dur) == (dur + TicksPerSec - 1) \div TicksPerSec

\* Duration::as_secs: the whole seconds of a duration
as_secs(dur) == dur \div TicksPerSec

\* Faulty variant: the quotient rounded to the nearest step instead of floored
get_counter_nearest(interval, epoch) ==
    LET d == duration_since(now, epoch)
    IN IF d.ok
       THEN IF interval = 0
            THEN [outcome |-> "panic", value |-> 0]
            ELSE [outcome |-> "Ok",
                  value |-> (as_secs(d.dur) + (interval \div 2)) \div interval]
       ELSE [outcome |-> "TimeError", value |-> 0]

\* get_counter(interval, epoch), reading the clock `now`;
\* u64 / 0 panics ("attempt to divide by zero")
get_counter(interval, epoch) ==
    LET d == duration_since(now, epoch)
    IN IF d.ok
       THEN IF interval = 0
            THEN [outcome |-> "panic", value |-> 0]
            ELSE [outcome |-> "Ok", value |-> as_secs(d.dur) \div interval]
       ELSE [outcome |-> "TimeError", value |-> 0]

(***************************************************************************)
(* generate_secret_key                                                     *)
(***************************************************************************)
ZeroKey == [i \in HashIdx |-> 0]

\* rng.try_fill_bytes(&mut secret_key) on a ChaCha20Rng: the block generator
\* fills the whole slice from its output `stream` and returns Ok(()); it has
\* no failing case
try_fill_bytes(buffer, stream) ==
    [ok |-> TRUE, buffer |-> [i \in DOMAIN buffer |-> stream[i]]]

\* generate_secret_key().  Its environment: `seeded` - whether
\* ChaCha20Rng::from_entropy obtained a seed from the system (it panics,
\* "from_entropy failed", otherwise); `stream` - the generator's output.
generate_secret_key(seeded, stream) ==
    IF ~seeded
    THEN [outcome |-> "panic", buffer |-> ZeroKey, returned |-> <<>>]
    ELSE LET r == try_fill_bytes(ZeroKey, stream)
         IN IF r.ok
            THEN [outcome |-> "Ok", buffer |-> r.buffer, returned |-> r.buffer]
            ELSE [outcome |-> "RandomBytesError", buffer |-> r.buffer,
                  returned |-> <<>>]

(***************************************************************************)
(* Input values                                                            *)
(***************************************************************************)
\* fillings of hash bytes 0..30 (byte 31, which selects the offset, ranges
\* over every byte value)
HashFills == {"ones", "ramp", "edge"}

FillByte(p, i) ==
    CASE p = "ones" -> 255
      [] p = "ramp" -> 8 * i + 3
      [] p = "edge" -> IF i % 2 = 0 THEN 128 ELSE 127

HashOf(p, last) == [i \in HashIdx |-> IF i = 31 THEN last ELSE FillByte(p, i)]

\* every offset on distinct bytes, and the ends of the range on the others
TestHashes ==
    {HashOf("ramp", last) : last \in (0..27) \cup {255}}
    \cup {HashOf(p, last) : p \in HashFills, last \in {0, 27, 255}}

SecretIds == {"zero", "ramp", "ones"}

SecretOf(id) ==
    [i \in HashIdx |-> CASE id = "zero" -> 0 [] id = "ramp" -> i [] id = "ones" -> 255]

\* botp is called with every counter up to MaxCounter and a few wide ones
MaxCounter == 1

BotpCounters == 0..MaxCounter \cup {256, 2147483647}

(***************************************************************************)
(* Initial values                                                          *)
(***************************************************************************)
NoRun ==
    [at |-> Done, panic |-> FALSE, returned |-> FALSE, offset |-> 0,
     printed |-> <<>>, reads |-> <<>>, assembled |-> FALSE, masked |-> <<>>,
     binned_code |-> U64Zero, code |-> U64Zero]

NoKey == [outcome |-> "none", buffer |-> ZeroKey, returned |-> <<>>]

CodeIdle ==
    /\ phase = "idle"
    /\ hash_bytes = ZeroKey
    /\ tr = NoRun
    /\ counter = 0
    /\ secret = ZeroKey
    /\ stdout_room = Unlimited
    /\ stdout_stale = NoLine

ClockIdle ==
    /\ now = 0
    /\ cfg_epoch = 0
    /\ cfg_interval = 1
    /\ calls = <<>>

(***************************************************************************)
(* Code generation: truncate on a given hash, botp on (counter, secret)    *)
(***************************************************************************)
InitCode ==
    /\ CodeIdle
    /\ ClockIdle
    /\ key = NoKey
    /\ botp_log = <<>>

\* truncate is entered: line 56
CallTruncate ==
    /\ phase = "idle"
    /\ \E h \in TestHashes :
          /\ hash_bytes' = h
          /\ tr' = truncate_begin(h)
    /\ phase' = "truncate"
    /\ UNCHANGED <<counter, secret, stdoutVars, clockVars, key, botp_log>>

\* botp is entered: lines 47 to 52, and truncate's line 56
CallBotp ==
    /\ phase = "idle"
    /\ \E c \in BotpCounters, id \in SecretIds :
          LET hash == keyed_hash(SecretOf(id), to_be_bytes(c))
          IN /\ counter' = c
             /\ secret' = SecretOf(id)
             /\ hash_bytes' = hash
             /\ tr' = truncate_begin(hash)
    /\ phase' = "botp"
    /\ UNCHANGED <<stdoutVars, clockVars, key, botp_log>>

\* the call in progress runs to its next println!, which uses stdout
TruncateStep ==
    /\ phase # "idle"
    /\ tr.at # Done
    /\ LET st == truncate_step([run |-> tr, room |-> stdout_room,
                                stale |-> stdout_stale], hash_bytes)
       IN /\ tr' = st.run
          /\ stdout_room' = st.room
          /\ stdout_stale' = st.stale
    /\ UNCHANGED <<phase, hash_bytes, counter, secret, clockVars, key, botp_log>>

\* the call has returned or panicked, and its values are dropped
Return ==
    /\ phase # "idle"
    /\ tr.at = Done
    /\ phase' = "idle"
    /\ hash_bytes' = ZeroKey
    /\ tr' = NoRun
    /\ counter' = 0
    /\ secret' = ZeroKey
    /\ UNCHANGED <<stdoutVars, clockVars, key, botp_log>>

\* The stdout device changes what it accepts: it fills up or is given space,
\* the reader of a pipe goes away, another process writes to the same file.
StdoutDevice ==
    /\ \E room \in 0..Unlimited : room # stdout_room /\ stdout_room' = room
    /\ UNCHANGED <<callVars, stdout_stale, clockVars, key, botp_log>>

\* the println! of truncate, by source line
TruncateLines == {57, 70, 73}

\* Another thread of the process is in truncate too and runs one of its
\* println!.  std's stdout buffer is shared by the threads of the process:
\* the println! uses up room, writes the line held there, or leaves its own
\* line there when its write fails, for the call observed here to write first.
StdoutThread ==
    /\ \E line \in TruncateLines :
           LET p == println(line, stdout_room, stdout_stale)
           IN /\ stdout_room' = p.room
              /\ stdout_stale' = p.stale
    /\ UNCHANGED <<callVars, clockVars, key, botp_log>>

\* Stdout changes under the call, between any two of its steps: println!
\* takes the stdout lock for one line only.
StdoutChange == StdoutDevice \/ StdoutThread

NextCode == CallTruncate \/ CallBotp \/ TruncateStep \/ Return \/ StdoutChange

SpecCode == InitCode /\ [][NextCode]_vars

(***************************************************************************)
(* Counter derivation: get_counter as the clock moves                      *)
(***************************************************************************)
MaxNow == 16        \* the clock runs over 0..MaxNow ticks
MaxEpoch == 3       \* epochs 0..MaxEpoch ticks
MaxInterval == 3    \* intervals 0..MaxInterval seconds

\* the record of a get_counter call made now
CallNow == [t |-> now] @@ get_counter(cfg_interval, cfg_epoch)

InitCounter ==
    /\ CodeIdle
    /\ key = NoKey
    /\ botp_log = <<>>
    /\ now = 0
    /\ cfg_epoch \in 0..MaxEpoch
    /\ cfg_interval \in 0..MaxInterval
    /\ calls = <<>>

ClockAdvance ==
    /\ now < MaxNow
    /\ now' = now + 1
    /\ UNCHANGED <<codeVars, cfg_epoch, cfg_interval, calls, key, botp_log>>

\* SystemTime is not monotonic: the clock may be set back
ClockSetBack ==
    /\ now > 0
    /\ now' = now - 1
    /\ UNCHANGED <<codeVars, cfg_epoch, cfg_interval, calls, key, botp_log>>

\* A call of get_counter.  `calls` keeps the latest call and one earlier
\* call, whichever: every pair of calls made is kept in some behaviour.
GetCounter ==
    /\ \/ /\ Len(calls) < 2
          /\ calls' = Append(calls, CallNow)
       \/ /\ Len(calls) = 2
          /\ \E keep \in 1..2 : calls' = <<calls[keep], CallNow>>
    /\ UNCHANGED <<codeVars, now, cfg_epoch, cfg_interval, key, botp_log>>

NextCounter == ClockAdvance \/ ClockSetBack \/ GetCounter

SpecCounter == InitCounter /\ [][NextCounter]_vars

(***************************************************************************)
(* The 30-second scenario: a call, a call 10 s later, a call 31 s after    *)
(* the first                                                               *)
(***************************************************************************)
ScenarioInterval == 30
MaxStart == 130     \* the first call is made at any tick in 0..MaxStart
ScenarioEpochs == {0, 7}

InitScenario ==
    /\ CodeIdle
    /\ key = NoKey
    /\ botp_log = <<>>
    /\ now = 0
    /\ cfg_epoch \in ScenarioEpochs
    /\ cfg_interval = ScenarioInterval
    /\ calls = <<>>

ScenarioTick ==
    /\ calls = <<>>
    /\ now < MaxStart
    /\ now' = now + 1
    /\ UNCHANGED <<codeVars, cfg_epoch, cfg_interval, calls, key, botp_log>>

ScenarioCall ==
    /\ \/ calls = <<>>
       \/ Len(calls) = 1 /\ now = calls[1].t + 10 * TicksPerSec
       \/ Len(calls) = 2 /\ now = calls[1].t + 31 * TicksPerSec
    /\ calls' = Append(calls, CallNow)
    /\ UNCHANGED <<codeVars, now, cfg_epoch, cfg_interval, key, botp_log>>

ScenarioWait ==
    /\ \/ Len(calls) = 1 /\ now = calls[1].t /\ now' = now + 10 * TicksPerSec
       \/ Len(calls) = 2 /\ now = calls[1].t + 10 * TicksPerSec
                         /\ now' = now + 21 * TicksPerSec
    /\ UNCHANGED <<codeVars, cfg_epoch, cfg_interval, calls, key, botp_log>>

NextScenario == ScenarioTick \/ ScenarioCall \/ ScenarioWait

SpecScenario == InitScenario /\ [][NextScenario]_vars

(***************************************************************************)
(* Secret generation                                                       *)
(***************************************************************************)
\* generator outputs: byte i is (step * i + first) mod 256
KeyStreams ==
    {[i \in HashIdx |-> (step * i + first) % 256] : step \in 0..7, first \in 240..255}

InitKey ==
    /\ CodeIdle
    /\ ClockIdle
    /\ key = NoKey
    /\ botp_log = <<>>

GenerateSecretKey ==
    /\ \E seeded \in BOOLEAN, stream \in KeyStreams :
          key' = generate_secret_key(seeded, stream)
    /\ UNCHANGED <<codeVars, clockVars, botp_log>>

NextKey == GenerateSecretKey

SpecKey == InitKey /\ [][NextKey]_vars

(***************************************************************************)
(* A caller's session: get_counter, generate_secret_key and botp in any    *)
(* order, botp called as documented, botp(get_counter(..), key)            *)
(***************************************************************************)
MaxSessionNow == 3

SessionStream == [i \in HashIdx |-> i + 1]

SessionInputs == (0..(MaxSessionNow \div TicksPerSec)) \X {SessionStream}

\* botp_log: for each botp input, the codes its calls have returned and
\* whether a call of it has panicked
InitSession ==
    /\ CodeIdle
    /\ key = NoKey
    /\ now = 0
    /\ cfg_epoch = 0
    /\ cfg_interval = 1
    /\ calls = <<>>
    /\ botp_log = [inp \in SessionInputs |-> [codes |-> {}, panicked |-> FALSE]]

SessionTick ==
    /\ now < MaxSessionNow
    /\ now' = now + 1
    /\ UNCHANGED <<codeVars, cfg_epoch, cfg_interval, calls, key, botp_log>>

SessionGetCounter ==
    /\ phase = "idle"
    /\ calls' = <<CallNow>>
    /\ UNCHANGED <<codeVars, now, cfg_epoch, cfg_interval, key, botp_log>>

SessionGenerateKey ==
    /\ phase = "idle"
    /\ \E seeded \in BOOLEAN : key' = generate_secret_key(seeded, SessionStream)
    /\ UNCHANGED <<codeVars, clockVars, botp_log>>

\* botp(counter, key) is entered with the counter and key obtained
SessionBotp ==
    /\ phase = "idle"
    /\ calls # <<>>
    /\ calls[1].outcome = "Ok"
    /\ key.outcome = "Ok"
    /\ LET hash == keyed_hash(key.returned, to_be_bytes(calls[1].value))
       IN /\ counter' = calls[1].value
          /\ secret' = key.returned
          /\ hash_bytes' = hash
          /\ tr' = truncate_begin(hash)
    /\ phase' = "botp"
    /\ UNCHANGED <<stdoutVars, clockVars, key, botp_log>>

\* the botp call has returned or panicked: the caller notes the outcome
SessionReturn ==
    /\ phase = "botp"
    /\ tr.at = Done
    /\ LET inp == <<counter, secret>>
           was == botp_log[inp]
       IN botp_log' =
              [botp_log EXCEPT
                  ![inp] = IF tr.returned
                           THEN [was EXCEPT !.codes = was.codes \cup {tr.code}]
                           ELSE [was EXCEPT !.panicked = TRUE]]
    /\ phase' = "idle"
    /\ hash_bytes' = ZeroKey
    /\ tr' = NoRun
    /\ counter' = 0
    /\ secret' = ZeroKey
    /\ UNCHANGED <<stdoutVars, clockVars, key>>

NextSession ==
    \/ SessionTick
    \/ SessionGetCounter
    \/ SessionGenerateKey
    \/ SessionBotp
    \/ TruncateStep
    \/ SessionReturn
    \/ StdoutChange

SpecSession == InitSession /\ [][NextSession]_vars

(***************************************************************************)
(* Numerals used to state the properties                                   *)
(***************************************************************************)
\* 10^11 = 100000000000
TenPow11 == <<0, 0, 0, 0, 0, 0, 0, 0, 1, 0, 0, 0, 0, 0, 0, 0, 0, 0, 0, 0>>

\* 2^63 = 9223372036854775808
TwoPow63 == <<0, 9, 2, 2, 3, 3, 7, 2, 0, 3, 6, 8, 5, 4, 7, 7, 5, 8, 0, 8>>

IsNumeral(x) == Len(x) = U64Digits /\ \A i \in 1..U64Digits : x[i] \in 0..9

\* quotient and remainder of the numeral prefix x[1..i] by a small divisor d
RECURSIVE DivRemFrom(_, _, _)
DivRemFrom(x, d, i) ==
    IF i = 0 THEN [q |-> <<>>, r |-> 0]
    ELSE LET prev == DivRemFrom(x, d, i - 1)
             t == prev.r * 10 + x[i]
         IN [q |-> Append(prev.q, t \div d), r |-> t % d]

DivRem(x, d) == DivRemFrom(x, d, Len(x))

\* x div 256^n
RECURSIVE DropBytes(_, _)
DropBytes(x, n) == IF n = 0 THEN x ELSE DropBytes(DivRem(x, 256).q, n - 1)

\* byte k (0 = most significant) of the 64-bit value of numeral x
ByteOfNum(x, k) == DivRem(DropBytes(x, 7 - k), 256).r

\* a code-generation call has run to its end
Ran == phase \in {"truncate", "botp"} /\ tr.at = Done

\* the offset and the window the specification prescribes for hash_bytes
SpecOffset == hash_bytes[31] % 28
SpecIndex(k) == (SpecOffset + k) % 32

\* how many times the window steps back to a lower index
Wraps == Cardinality({k \in 0..6 : tr.reads[k + 1] < tr.reads[k]})

\* the eight reads made are the prescribed window, and so are the bytes of
\* the assembled value
WindowAsPrescribed ==
    /\ \A k \in U64Idx : tr.reads[k] = SpecIndex(k)
    /\ \A k \in 1..7 : ByteOfNum(tr.binned_code, k) = hash_bytes[SpecIndex(k)]
    /\ ByteOfNum(tr.binned_code, 0) = hash_bytes[SpecIndex(0)] % 128
    /\ (tr.offset = 27 =>
           <<tr.reads[0], tr.reads[1], tr.reads[2], tr.reads[3],
             tr.reads[4], tr.reads[5], tr.reads[6], tr.reads[7]>>
           = <<27, 28, 29, 30, 31, 0, 1, 2>>)
    /\ Wraps <= 1
    /\ (Wraps = 1 <=> tr.offset >= 25)

(***************************************************************************)
(* Claims about code generation (SpecCode)                                 *)
(***************************************************************************)
\* C1: every value botp / truncate returns lies in [0, 10^11).
C1_CodeInRange ==
    (Ran /\ tr.returned) => IsNumeral(tr.code) /\ LessNum(tr.code, TenPow11)

\* C1 witness: botp returned a code from an assembled value of at least
\* 10^11, so the reduction acted.
C1_Witness ==
    /\ phase = "botp"
    /\ tr.returned
    /\ GeqNum(tr.binned_code, TenPow11)
    /\ tr.code # U64Zero

\* C8: for every hash, truncate computes offset = hash[31] mod 28 and
\* reads exactly the eight bytes at indices (offset + k) mod 32, in order
\* (offset 27 reads 27,28,29,30,31,0,1,2); the window wraps at most once,
\* and exactly when offset >= 25.
C8_WrappedWindow ==
    Ran =>
        /\ tr.offset = SpecOffset
        /\ DOMAIN tr.reads = U64Idx
        /\ WindowAsPrescribed

\* C9: the 64-bit value truncate assembles has the top bit of its most
\* significant byte clear (the value is below 2^63) and its other seven
\* bytes are the selected hash bytes unchanged.
C9_TopBitClear ==
    (phase # "idle" /\ tr.assembled) =>
        /\ ByteOfNum(tr.binned_code, 0) < 128
        /\ LessNum(tr.binned_code, TwoPow63)
        /\ \A k \in 1..7 : ByteOfNum(tr.binned_code, k) = hash_bytes[tr.reads[k]]
        /\ \A k \in 1..7 : tr.masked[k] = hash_bytes[tr.reads[k]]

\* C9 witness: a value was assembled whose first selected byte had its top
\* bit set before masking.
C9_Witness ==
    /\ phase # "idle"
    /\ tr.assembled
    /\ hash_bytes[SpecOffset] >= 128
    /\ tr.masked[0] = hash_bytes[SpecOffset] - 128

\* C10: truncation is total: the offset is in [0, 28), every index handed
\* to the slice access is in [0, 31], and the call returns a code: no
\* panic is reachable inside botp / truncate.
C10_TruncateTotal ==
    Ran =>
        /\ tr.offset \in 0..27
        /\ \A k \in DOMAIN tr.reads : tr.reads[k] \in HashIdx
        /\ ~tr.panic
        /\ IsNumeral(tr.code)

(***************************************************************************)
(* Claims about get_counter (SpecCounter, SpecScenario)                    *)
(***************************************************************************)
\* ticks elapsed from the epoch to call c (meaningful when c.t >= cfg_epoch)
Elapsed(c) == c.t - cfg_epoch

\* call c was made in window k: [k * interval, (k + 1) * interval) seconds
\* after the epoch
InWindow(c, k) ==
    /\ k * cfg_interval * TicksPerSec <= Elapsed(c)
    /\ Elapsed(c) < (k + 1) * cfg_interval * TicksPerSec

\* window numbers that the clock can reach
Windows == 0..(MaxNow + MaxStart + 31 * TicksPerSec)

CallIdx == DOMAIN calls

\* C3: a call made before the epoch returns TimeError; Ok is never returned
\* for such a call (no wrapped or negative-derived counter); a call made at
\* or after the epoch with interval > 0 returns Ok.
C3_EpochViolation ==
    \A i \in CallIdx :
        /\ (calls[i].t < cfg_epoch => calls[i].outcome = "TimeError")
        /\ (calls[i].outcome = "Ok" => calls[i].t >= cfg_epoch /\ calls[i].value >= 0)
        /\ (calls[i].t >= cfg_epoch /\ cfg_interval > 0 => calls[i].outcome = "Ok")

\* C3 witness: one call made before the epoch failed with TimeError and a
\* later call, at or after the epoch, returned Ok.
C3_Witness ==
    /\ Len(calls) = 2
    /\ calls[1].t < cfg_epoch
    /\ calls[1].outcome = "TimeError"
    /\ calls[2].t >= cfg_epoch
    /\ calls[2].outcome = "Ok"

\* C4: for a fixed interval > 0 and epoch, of two calls at or after the
\* epoch the one with the later clock reading has the greater or equal
\* counter, and two calls in the same window k both return k.
C4_Monotonic ==
    cfg_interval > 0 =>
        \A i, j \in CallIdx :
            (calls[i].t >= cfg_epoch /\ calls[j].t >= cfg_epoch) =>
                /\ calls[i].outcome = "Ok" /\ calls[j].outcome = "Ok"
                /\ (calls[i].t < calls[j].t => calls[i].value <= calls[j].value)
                /\ \A k \in Windows :
                       (InWindow(calls[i], k) /\ InWindow(calls[j], k)) =>
                           calls[i].value = k /\ calls[j].value = k

\* C4 witness: two calls at different clock readings inside window 1, the
\* second reading less than a second after the first.
C4_Witness ==
    /\ Len(calls) = 2
    /\ cfg_interval > 0
    /\ calls[1].t >= cfg_epoch
    /\ calls[2].t = calls[1].t + 1
    /\ InWindow(calls[1], 1)
    /\ InWindow(calls[2], 1)
    /\ calls[1].value = 1

\* C5: a call with interval = 0 is rejected with an error other than
\* TimeError, and the division is not performed (no division fault).
C5_ZeroIntervalRejected ==
    \A i \in CallIdx :
        cfg_interval = 0 =>
            /\ calls[i].outcome # "panic"
            /\ calls[i].outcome # "TimeError"
            /\ calls[i].outcome # "Ok"

\* C6: interval 30 s: when the call made 10 s after the first falls in the
\* first call's window, it returns the first call's counter c, and the call
\* made 31 s after the first returns c + 1.
C6_Scenario ==
    (/\ calls # <<>>
     /\ calls[1].outcome = "Ok"
     /\ \E k \in Windows :
           /\ InWindow(calls[1], k)
           /\ InWindow([t |-> calls[1].t + 10 * TicksPerSec], k))
    => /\ (Len(calls) >= 2 =>
              /\ calls[2].t = calls[1].t + 10 * TicksPerSec
              /\ calls[2].outcome = "Ok"
              /\ calls[2].value = calls[1].value)
       /\ (Len(calls) >= 3 =>
              /\ calls[3].t = calls[1].t + 31 * TicksPerSec
              /\ calls[3].outcome = "Ok"
              /\ calls[3].value = calls[1].value + 1)

\* C6 witness: the three calls were made, the first at the last clock
\* reading for which the second still falls in its window (window 1).
C6_Witness ==
    /\ Len(calls) = 3
    /\ calls[1].outcome = "Ok"
    /\ calls[1].value = 1
    /\ InWindow([t |-> calls[1].t + 10 * TicksPerSec], 1)
    /\ ~InWindow([t |-> calls[1].t + 10 * TicksPerSec + 1], 1)
    /\ calls[3].value = 2

(***************************************************************************)
(* Claim about generate_secret_key (SpecKey)                               *)
(***************************************************************************)
\* C7: generate_secret_key returns Ok with a 32-byte buffer the random
\* source filled completely, or RandomBytesError; a buffer the source did
\* not fill is never returned as Ok.
C7_KeyOrError ==
    /\ key.outcome \in {"none", "Ok", "RandomBytesError"}
    /\ (key.outcome = "Ok" =>
           /\ DOMAIN key.returned = HashIdx
           /\ key.returned = key.buffer
           /\ key.returned \in KeyStreams)
    /\ (key.outcome = "RandomBytesError" => key.returned = <<>>)

(***************************************************************************)
(* Claim about a caller's session (SpecSession)                            *)
(***************************************************************************)
\* C2: two invocations of botp with the same (counter, secret) return the
\* same code, whatever calls were made before: the calls of botp on one
\* input have all had one and the same outcome, a code.
C2_Deterministic ==
    \A inp \in DOMAIN botp_log :
        Cardinality(botp_log[inp].codes)
            + (IF botp_log[inp].panicked THEN 1 ELSE 0) <= 1

====
